---- MODULE Spec2Model ----
(***************************************************************************)
(* Survey backend (src/main.py, src/schemas.py): one static survey served  *)
(* over HTTP, a submission endpoint that hands one record to the           *)
(* persistence collaborator, and a diagnostics endpoint.                   *)
(*                                                                         *)
(* Optional values (Python None) are records [some, val]; JSON values of   *)
(* a request body carry their JSON kind.  The emoji that prefix the        *)
(* diagnostics strings of test_database are written as ASCII tags.         *)
(***************************************************************************)
EXTENDS Integers, Sequences, FiniteSets, TLC

VARIABLES
    app,            \* "loading" | "running" | "failed": the module-level code of main.py
    PRESET_SURVEY,  \* main.py:22 the catalog
    moduleFound,    \* whether `database` can be imported
    db,             \* database.db: the module-level handle, None or a handle
    reqs,           \* the requests: kind, position, locals and response of each
    inserts,        \* per request, the create_document calls the collaborator received
    nextOid,        \* number of documents the store has generated an id for
    qinput,         \* the raw mapping last handed to SurveyQuestion
    qresult         \* what SurveyQuestion made of it

vars == <<app, PRESET_SURVEY, moduleFound, db, reqs, inserts, nextOid, qinput, qresult>>

mainVars == <<app, PRESET_SURVEY, moduleFound, db, reqs, inserts, nextOid>>

\* Number of requests a behaviour issues.
MaxRequests == 2

Requests == 1..MaxRequests

\* ---------------------------------------------------------------- values

None == [some |-> FALSE, val |-> ""]

Some(s) == [some |-> TRUE, val |-> s]

Min(a, b) == IF a < b THEN a ELSE b

\* s[:n] of Python
Prefix(s, n) == SubSeq(s, 1, Min(n, Len(s)))

\* ---------------------------------------------------------------- schemas.py

QuestionTypes == {"scale", "single", "text"}

\* A raw question mapping: each field is absent or carries a value of a JSON kind.
Absent == [kind |-> "absent", str |-> "", items |-> <<>>]

JNull == [kind |-> "null", str |-> "", items |-> <<>>]

JNum(s) == [kind |-> "num", str |-> s, items |-> <<>>]

JStr(s) == [kind |-> "str", str |-> s, items |-> <<>>]

\* an array; its items are themselves kinded
JArr(xs) == [kind |-> "arr", str |-> "", items |-> xs]

StrItem(s) == [kind |-> "str", str |-> s]

NumItem(s) == [kind |-> "num", str |-> s]

IsStrList(v) == v.kind = "arr" /\ \A i \in 1..Len(v.items) : v.items[i].kind = "str"

StrList(v) == [i \in 1..Len(v.items) |-> v.items[i].str]

NoQuestion == [id |-> "", topic |-> "", text |-> "", type |-> "scale", options |-> [some |-> FALSE, val |-> <<>>]]

\* SurveyQuestion accepts the mapping: required str fields, a Literal type with a
\* default, an Optional[List[str]] with default None.  No validator relates
\* options to type.
SurveyQuestionAccepts(raw) ==
    /\ raw.id.kind = "str"
    /\ raw.topic.kind = "str"
    /\ raw.text.kind = "str"
    /\ \/ raw.type.kind = "absent"
       \/ raw.type.kind = "str" /\ raw.type.str \in QuestionTypes
    /\ \/ raw.options.kind \in {"absent", "null"}
       \/ IsStrList(raw.options)

SurveyQuestion(raw) ==
    [id |-> raw.id.str,
     topic |-> raw.topic.str,
     text |-> raw.text.str,
     type |-> IF raw.type.kind = "absent" THEN "scale" ELSE raw.type.str,
     options |-> IF raw.options.kind \in {"absent", "null"}
                 THEN [some |-> FALSE, val |-> <<>>]
                 ELSE [some |-> TRUE, val |-> StrList(raw.options)]]

Survey(survey_id, title, description, questions) ==
    [survey_id |-> survey_id,
     title |-> title,
     description |-> description,
     questions |-> [i \in 1..Len(questions) |-> SurveyQuestion(questions[i])]]

NoSurvey == [survey_id |-> "", title |-> "", description |-> "", questions |-> <<>>]

\* ---------------------------------------------------------------- main.py:22-36

RawQ(id, topic, text, type, options) ==
    [id |-> JStr(id), topic |-> JStr(topic), text |-> JStr(text), type |-> type, options |-> options]

Opts(xs) == JArr([i \in 1..Len(xs) |-> StrItem(xs[i])])

PresetQuestions ==
    << RawQ("q1", "technology", "How comfortable are you with new technology?", JStr("scale"), Absent),
       RawQ("q2", "technology", "Which platform do you use the most?", JStr("single"),
            Opts(<<"iOS", "Android", "Windows", "macOS", "Linux">>)),
       RawQ("q3", "health", "How many days a week do you exercise?", JStr("single"),
            Opts(<<"0", "1-2", "3-4", "5+">>)),
       RawQ("q4", "finance", "How do you primarily budget your expenses?", JStr("single"),
            Opts(<<"App", "Spreadsheet", "Pen & Paper", "I don't budget">>)),
       RawQ("q5", "education", "Highest level of education completed?", JStr("single"),
            Opts(<<"High School", "Associate", "Bachelor's", "Master's", "Doctorate">>)),
       RawQ("q6", "travel", "How often do you travel for leisure?", JStr("single"),
            Opts(<<"Rarely", "1-2x/yr", "3-4x/yr", "5+ / yr">>)),
       RawQ("q7", "entertainment", "Favorite entertainment format?", JStr("single"),
            Opts(<<"Movies", "Series", "Books", "Gaming", "Music Concerts">>)),
       RawQ("q8", "technology", "What tech topic are you most curious about right now?", JStr("text"), Absent) >>

PresetSurveyValue ==
    Survey("major-topics-001",
           "General Interests & Lifestyle Survey",
           "A quick survey covering technology, health, finance, education, travel and entertainment.",
           PresetQuestions)

\* ---------------------------------------------------------------- database (collaborator)

NotConfiguredMsg == "Database not available"

StoreErrors == {"timeout"}

Oid(n) == "oid" \o ToString(n)

NoRet == [raised |-> FALSE, doc_id |-> "", err |-> ""]

\* create_document(collection_name, data): fails when the handle is None, else the
\* store either generates the next document id or fails.
create_document(collection_name, data) ==
    IF ~db.some
    THEN {[raised |-> TRUE, doc_id |-> "", err |-> NotConfiguredMsg]}
    ELSE {[raised |-> FALSE, doc_id |-> Oid(nextOid + 1), err |-> ""]}
         \cup {[raised |-> TRUE, doc_id |-> "", err |-> e] : e \in StoreErrors}

\* ---------------------------------------------------------------- requests

AnsObj(q, a) == [kind |-> "obj", question_id |-> q, answer |-> a]

AnsNum == [kind |-> "num", question_id |-> "", answer |-> ""]

BodyArr(xs) == [kind |-> "arr", str |-> "", items |-> xs]

A1 == AnsObj("q1", "5")

A2 == AnsObj("q2", "Linux")

\* The bodies a client posts to /api/survey/submit.
Bodies ==
    { [survey_id |-> JStr("major-topics-001"), answers |-> BodyArr(<<A1>>)],
      [survey_id |-> JStr("major-topics-001"), answers |-> BodyArr(<<A2, A1>>)],
      [survey_id |-> JStr("major-topics-001"), answers |-> BodyArr(<<>>)],
      [survey_id |-> JStr("wrong-id"), answers |-> BodyArr(<<>>)],
      [survey_id |-> JStr("major-topics-002"), answers |-> BodyArr(<<A1>>)],
      [survey_id |-> Absent, answers |-> BodyArr(<<A1>>)],
      [survey_id |-> JNum("7"), answers |-> BodyArr(<<A1>>)],
      [survey_id |-> JStr("major-topics-001"), answers |-> Absent],
      [survey_id |-> JStr("major-topics-001"), answers |-> JStr("q1=5")],
      [survey_id |-> JStr("major-topics-001"), answers |-> BodyArr(<<A1, AnsNum>>)] }

NoBody == [survey_id |-> Absent, answers |-> Absent]

NoPayload == [survey_id |-> "", answers |-> <<>>]

\* The request context: the user-agent header and the client address, each optional.
Contexts == {[ua |-> u, client |-> c] : u \in {None, Some("curl/8.0")}, c \in {None, Some("10.0.0.1")}}

NoContext == [ua |-> None, client |-> None]

NoDiag ==
    [backend |-> "", database |-> "", database_url |-> None, database_name |-> None,
     connection_status |-> "", collections |-> <<>>]

NoResp == [status |-> 0, detail |-> "", ok |-> "", id |-> "", survey |-> NoSurvey, diag |-> NoDiag]

IdleRequest ==
    [kind |-> "none", pc |-> "idle", body |-> NoBody, payload |-> NoPayload,
     ctx |-> NoContext, ret |-> NoRet, resp |-> NoResp]

\* HTTPException(status_code, detail)
HTTPException(status_code, detail) == [NoResp EXCEPT !.status = status_code, !.detail = detail]

\* ---------------------------------------------------------------- main.py:46-48

\* faulty variant: an absent answers field is taken as an empty list
AnswersLenient(body) ==
    /\ body.survey_id.kind = "str"
    /\ body.answers.kind \in {"arr", "absent"}
    /\ \A i \in 1..Len(body.answers.items) : body.answers.items[i].kind = "obj"

\* SubmitPayload: survey_id: str and answers: List[dict], both required.
SubmitPayloadAccepts(body) ==
    /\ body.survey_id.kind = "str"
    /\ body.answers.kind = "arr"
    /\ \A i \in 1..Len(body.answers.items) : body.answers.items[i].kind = "obj"

SubmitPayload(body) ==
    [survey_id |-> body.survey_id.str,
     answers |-> [i \in 1..Len(body.answers.items) |->
                    [question_id |-> body.answers.items[i].question_id,
                     answer |-> body.answers.items[i].answer]]]

\* ---------------------------------------------------------------- main.py:42-44

\* faulty variant: the handler drops a question from what it returns
SurveyWithoutFirstQuestion == [PRESET_SURVEY EXCEPT !.questions = Tail(PRESET_SURVEY.questions)]

get_survey == PRESET_SURVEY

\* ---------------------------------------------------------------- main.py:50-74

\* faulty variant: the id check is missing
NoIdCheck(payload) == TRUE

\* line 52
SurveyIdMatches(payload) == payload.survey_id = PRESET_SURVEY.survey_id

\* faulty variant: headers.get("user-agent", "")
MetadataEmptyDefault(ctx) ==
    [ua |-> IF ctx.ua.some THEN ctx.ua ELSE Some(""), ip |-> ctx.client]

\* lines 56-57: headers.get("user-agent"); client.host if client else None
Metadata(ctx) ==
    [ua |-> IF ctx.ua.some THEN Some(ctx.ua.val) ELSE None,
     ip |-> IF ctx.client.some THEN Some(ctx.client.val) ELSE None]

\* faulty variant: the answers are stored sorted by question id
RecordSortedAnswers(payload, ua, ip) ==
    [survey_id |-> payload.survey_id,
     answers |-> IF Len(payload.answers) = 2 /\ payload.answers[1].question_id = "q2"
                 THEN <<payload.answers[2], payload.answers[1]>>
                 ELSE payload.answers,
     user_agent |-> ua,
     ip |-> ip]

\* lines 63-68
InsertRecord(payload, ua, ip) ==
    [survey_id |-> payload.survey_id, answers |-> payload.answers, user_agent |-> ua, ip |-> ip]

\* faulty variant: the exception is swallowed and the submission acknowledged
SwallowError(ret) == [NoResp EXCEPT !.status = 200, !.ok = "ok", !.id = ret.doc_id]

\* lines 70-74: the except clause and the return
SubmitResult(ret) ==
    IF ret.raised
    THEN HTTPException(500, "Database error: " \o ret.err)
    ELSE [NoResp EXCEPT !.status = 200, !.ok = "ok", !.id = ret.doc_id]

\* faulty variant: doc_id kept in a module-level global that every request writes
SharedDocId(r) == [reqs[r].ret EXCEPT !.doc_id = Oid(nextOid)]

\* the handler's locals after the try block (doc_id, or the exception)
Locals(r) == reqs[r].ret

\* ---------------------------------------------------------------- main.py:76-118

\* str(e)[:50]
ErrLimit == 50

\* collections[:10]
CollLimit == 10

LongError == "connection to the replica set timed out after 30000 ms (server selection)"

ManyCollections ==
    <<"surveyresponse", "user", "product", "c4", "c5", "c6", "c7", "c8", "c9", "c10", "c11">>

HealthOutcome(n, l, c, e, u, m) ==
    [import |-> IF moduleFound THEN "ok" ELSE "ImportError", handle |-> db.some,
     name |-> n, list |-> l, collections |-> c, err |-> e, env_url |-> u, env_name |-> m]

\* What one call of test_database meets: the import, the handle, the read of
\* db.name, list_collection_names(), and the two environment values.  Without a
\* handle neither db.name nor the listing is reached.
HealthOutcomes ==
    IF ~db.some
    THEN {HealthOutcome("attr", "ok", <<>>, "", u, m) : u \in BOOLEAN, m \in BOOLEAN}
    ELSE {HealthOutcome(n, "ok", c, "", u, m) :
              n \in {"attr", "noattr"}, c \in {<<"surveyresponse">>, ManyCollections},
              u \in BOOLEAN, m \in BOOLEAN}
         \cup {HealthOutcome(n, "raise", <<>>, e, u, m) :
              n \in {"attr", "noattr"}, e \in {"timeout", LongError},
              u \in BOOLEAN, m \in BOOLEAN}
         \cup {HealthOutcome("raise", "ok", <<>>, LongError, u, m) : u \in BOOLEAN, m \in BOOLEAN}

MSG_NOT_FOUND == "[x] Database module not found (run enable-database first)"

MSG_NOT_INIT == "[!] Available but not initialized"

MSG_WORKING == "[ok] Connected & Working"

EnvFlag(set) == Some(IF set THEN "[ok] Set" ELSE "[x] Not Set")

test_database(o) ==
    LET r0 == [backend |-> "[ok] Running", database |-> "[x] Not Available",
               database_url |-> None, database_name |-> None,
               connection_status |-> "Not Connected", collections |-> <<>>]
        \* lines 93-96, up to the read of db.name
        r1 == [r0 EXCEPT !.database = "[ok] Available", !.database_url = Some("[ok] Configured")]
        r2 == [r1 EXCEPT !.database_name = Some(IF o.name = "attr" THEN "surveydb" ELSE "[ok] Connected"),
                         !.connection_status = "Connected"]
        \* lines 99-104
        r3 == IF o.list = "ok"
              THEN [r2 EXCEPT !.collections = Prefix(o.collections, CollLimit),
                              !.database = MSG_WORKING]
              ELSE [r2 EXCEPT !.database = "[!] Connected but Error: " \o Prefix(o.err, ErrLimit)]
        r4 == IF o.import = "ImportError" THEN [r0 EXCEPT !.database = MSG_NOT_FOUND]
              ELSE IF ~o.handle THEN [r0 EXCEPT !.database = MSG_NOT_INIT]
              ELSE IF o.name = "raise"
                   THEN [r1 EXCEPT !.database = "[x] Error: " \o Prefix(o.err, ErrLimit)]
                   ELSE r3
        \* lines 115-116
        r5 == [r4 EXCEPT !.database_url = EnvFlag(o.env_url), !.database_name = EnvFlag(o.env_name)]
    IN [status |-> 200, detail |-> "", ok |-> "", id |-> "", survey |-> NoSurvey, diag |-> r5]

\* ---------------------------------------------------------------- the process

Init ==
    /\ app = "loading"
    /\ PRESET_SURVEY = NoSurvey
    /\ moduleFound \in BOOLEAN
    /\ db \in {None, Some("client")}
    /\ (~moduleFound => db = None)
    /\ reqs = [r \in Requests |-> IdleRequest]
    /\ inserts = [r \in Requests |-> <<>>]
    /\ nextOid = 0
    /\ qinput = [id |-> Absent, topic |-> Absent, text |-> Absent, type |-> Absent, options |-> Absent]
    /\ qresult = [accepted |-> FALSE, question |-> NoQuestion]

\* The next request a client sends takes the first free slot.
NextSlot(r) == reqs[r].pc = "idle" /\ \A q \in 1..(r - 1) : reqs[q].pc # "idle"

\* main.py:7-36: the module-level imports and the construction of the catalog.
\* `from database import create_document` fails the load when the module is missing.
Startup ==
    /\ app = "loading"
    /\ IF moduleFound
       THEN app' = "running" /\ PRESET_SURVEY' = PresetSurveyValue
       ELSE app' = "failed" /\ UNCHANGED PRESET_SURVEY
    /\ UNCHANGED <<moduleFound, db, reqs, inserts, nextOid, qinput, qresult>>

\* A request sent to a process whose load failed: nothing serves it.
Refused(r, kind) ==
    /\ app = "failed"
    /\ NextSlot(r)
    /\ reqs' = [reqs EXCEPT ![r] = [IdleRequest EXCEPT !.kind = kind, !.pc = "refused"]]
    /\ UNCHANGED <<app, PRESET_SURVEY, moduleFound, db, inserts, nextOid, qinput, qresult>>

\* GET /api/survey
GetSurvey(r) ==
    /\ app = "running"
    /\ NextSlot(r)
    /\ reqs' = [reqs EXCEPT ![r] = [IdleRequest EXCEPT !.kind = "survey", !.pc = "done",
                                       !.resp = [NoResp EXCEPT !.status = 200, !.survey = get_survey]]]
    /\ UNCHANGED <<app, PRESET_SURVEY, moduleFound, db, inserts, nextOid, qinput, qresult>>

\* POST /api/survey/submit arrives: the boundary validates the body against
\* SubmitPayload before the handler is called.
SubmitReceive(r, body) ==
    /\ app = "running"
    /\ NextSlot(r)
    /\ reqs' = [reqs EXCEPT ![r] =
                  IF SubmitPayloadAccepts(body)
                  THEN [IdleRequest EXCEPT !.kind = "submit", !.pc = "handler", !.body = body,
                                           !.payload = SubmitPayload(body)]
                  ELSE [IdleRequest EXCEPT !.kind = "submit", !.pc = "done", !.body = body,
                                           !.resp = HTTPException(422, "validation error")]]
    /\ UNCHANGED <<app, PRESET_SURVEY, moduleFound, db, inserts, nextOid, qinput, qresult>>

\* submit_survey, lines 52-69: the id check, the metadata, the call of create_document.
SubmitInsert(r, ctx) ==
    /\ reqs[r].kind = "submit" /\ reqs[r].pc = "handler"
    /\ IF ~SurveyIdMatches(reqs[r].payload)
       THEN /\ reqs' = [reqs EXCEPT ![r].pc = "done",
                                    ![r].resp = HTTPException(400, "Invalid survey id")]
            /\ UNCHANGED <<inserts, nextOid>>
       ELSE LET m == Metadata(ctx)
                data == InsertRecord(reqs[r].payload, m.ua, m.ip)
            IN \E ret \in create_document("surveyresponse", data) :
                  /\ reqs' = [reqs EXCEPT ![r].pc = "called", ![r].ctx = ctx, ![r].ret = ret]
                  /\ inserts' = [inserts EXCEPT ![r] =
                                   Append(@, [collection |-> "surveyresponse", data |-> data,
                                              raised |-> ret.raised, doc_id |-> ret.doc_id,
                                              err |-> ret.err])]
                  /\ nextOid' = IF ret.raised THEN nextOid ELSE nextOid + 1
    /\ UNCHANGED <<app, PRESET_SURVEY, moduleFound, db, qinput, qresult>>

\* submit_survey, lines 70-74: the exception becomes a 500, the id an acknowledgement.
SubmitReturn(r) ==
    /\ reqs[r].kind = "submit" /\ reqs[r].pc = "called"
    /\ reqs' = [reqs EXCEPT ![r].pc = "done", ![r].resp = SubmitResult(Locals(r))]
    /\ UNCHANGED <<app, PRESET_SURVEY, moduleFound, db, inserts, nextOid, qinput, qresult>>

\* GET /test
TestDatabase(r, o) ==
    /\ app = "running"
    /\ NextSlot(r)
    /\ reqs' = [reqs EXCEPT ![r] = [IdleRequest EXCEPT !.kind = "health", !.pc = "done",
                                       !.resp = test_database(o)]]
    /\ UNCHANGED <<app, PRESET_SURVEY, moduleFound, db, inserts, nextOid, qinput, qresult>>

Next ==
    \/ Startup
    \/ \E r \in Requests, kind \in {"survey", "submit", "health"} : Refused(r, kind)
    \/ \E r \in Requests : GetSurvey(r)
    \/ \E r \in Requests, body \in Bodies : SubmitReceive(r, body)
    \/ \E r \in Requests, ctx \in Contexts : SubmitInsert(r, ctx)
    \/ \E r \in Requests : SubmitReturn(r)
    \/ \E r \in Requests, o \in HealthOutcomes : TestDatabase(r, o)

Spec == Init /\ [][Next]_vars

\* ---------------------------------------------------------------- the Question schema alone

RawQuestions ==
    { [id |-> i, topic |-> t, text |-> JStr("?"), type |-> ty, options |-> op] :
        i \in {Absent, JStr("q1"), JNum("1")},
        t \in {Absent, JStr("health")},
        ty \in {Absent, JNull, JStr("scale"), JStr("single"), JStr("text"), JStr("multi")},
        op \in {Absent, JNull, Opts(<<>>), Opts(<<"a">>), Opts(<<"a", "b">>), JStr("a"),
                JArr(<<NumItem("1")>>)} }

\* SurveyQuestion(**raw): the model is built or a validation error is raised.
ValidateQuestion(raw) ==
    /\ qinput' = raw
    /\ qresult' = IF SurveyQuestionAccepts(raw)
                  THEN [accepted |-> TRUE, question |-> SurveyQuestion(raw)]
                  ELSE [accepted |-> FALSE, question |-> NoQuestion]
    /\ UNCHANGED mainVars

SchemaNext == \E raw \in RawQuestions : ValidateQuestion(raw)

SpecSchema == Init /\ [][SchemaNext]_vars

\* ---------------------------------------------------------------- properties

CatalogId == "major-topics-001"

\* The body has both required fields with the declared JSON types.
WellFormed(body) ==
    /\ body.survey_id.kind = "str"
    /\ body.answers.kind = "arr"
    /\ \A i \in 1..Len(body.answers.items) : body.answers.items[i].kind = "obj"

\* The answers of a well-formed body, as the mappings the client sent.
BodyAnswers(body) ==
    [i \in 1..Len(body.answers.items) |->
        [question_id |-> body.answers.items[i].question_id, answer |-> body.answers.items[i].answer]]

\* The submissions the application received.
Submits == {r \in Requests : reqs[r].kind = "submit" /\ reqs[r].pc # "refused"}

\* Submissions whose body is well formed and names the catalog survey.
Matching == {r \in Submits : WellFormed(reqs[r].body) /\ reqs[r].body.survey_id.str = CatalogId}

RECURSIVE SumInserts(_)
SumInserts(n) == IF n = 0 THEN 0 ELSE Len(inserts[n]) + SumInserts(n - 1)

\* C1: a finished valid submission that names the catalog survey and whose insert
\* did not raise is answered 200 {"status": "ok", "id": <non-empty>}, and the
\* collaborator received exactly one insert, with the answers of the payload in
\* the same order.
C1_SubmitSuccess ==
    \A r \in Matching :
        (reqs[r].pc = "done" /\ \A i \in 1..Len(inserts[r]) : ~inserts[r][i].raised)
        => /\ reqs[r].resp.status = 200
           /\ reqs[r].resp.ok = "ok"
           /\ Len(reqs[r].resp.id) > 0
           /\ Len(inserts[r]) = 1
           /\ inserts[r][1].data.answers = BodyAnswers(reqs[r].body)

C1_Witness ==
    \E r \in Matching :
        /\ reqs[r].pc = "done" /\ reqs[r].resp.status = 200
        /\ Len(inserts[r]) = 1 /\ Len(inserts[r][1].data.answers) = 2

\* C2: a submission whose survey_id is not the catalog id never reaches the
\* collaborator and is never acknowledged; it ends with 400 "Invalid survey id".
C2_InvalidSurveyId ==
    \A r \in Submits :
        (WellFormed(reqs[r].body) /\ reqs[r].body.survey_id.str # CatalogId)
        => /\ inserts[r] = <<>>
           /\ reqs[r].pc \in {"handler", "done"}
           /\ reqs[r].resp.status # 200 /\ reqs[r].resp.ok # "ok"
           /\ reqs[r].pc = "done" =>
                 reqs[r].resp.status = 400 /\ reqs[r].resp.detail = "Invalid survey id"

C2_Witness ==
    \E r \in Submits :
        /\ reqs[r].body.survey_id = JStr("major-topics-002")
        /\ reqs[r].pc = "done" /\ reqs[r].resp.status = 400

\* C3: when create_document raises, the submission ends with 500 and the detail
\* "Database error: " followed by the message raised; the insert is attempted
\* once only and the submission is never acknowledged.
C3_StorageError ==
    \A r \in Submits :
        /\ Len(inserts[r]) <= 1
        /\ (inserts[r] # <<>> /\ inserts[r][1].raised)
           => /\ reqs[r].resp.status # 200 /\ reqs[r].resp.ok # "ok"
              /\ reqs[r].pc = "done" =>
                    /\ reqs[r].resp.status = 500
                    /\ reqs[r].resp.detail = "Database error: " \o inserts[r][1].err
                    /\ Len(inserts[r]) = 1

C3_Witness ==
    \E r \in Submits :
        /\ reqs[r].pc = "done" /\ inserts[r] # <<>> /\ inserts[r][1].raised
        /\ reqs[r].resp.detail = "Database error: Database not available"

\* C4: every diagnostics call a client makes, in every state of the collaborator,
\* ends with a 200 and a descriptive body.
C4_HealthAlwaysSucceeds ==
    \A r \in Requests :
        (reqs[r].kind = "health" /\ reqs[r].pc # "idle")
        => /\ reqs[r].pc = "done"
           /\ reqs[r].resp.status = 200
           /\ reqs[r].resp.diag.database # ""

\* C5: a diagnostics call reports the state of the collaborator: module not found,
\* present but not initialized, connected and working, or connected with an error
\* on listing; the four strings differ, and the call made while the module cannot
\* be found succeeds with the module-not-found string.
C5_HealthReportsState ==
    /\ Cardinality({MSG_NOT_FOUND, MSG_NOT_INIT, MSG_WORKING,
                    "[!] Connected but Error: " \o Prefix("timeout", ErrLimit)}) = 4
    /\ \A r \in Requests :
        (reqs[r].kind = "health" /\ reqs[r].pc # "idle")
        => /\ reqs[r].resp.status = 200
           /\ ~moduleFound => reqs[r].resp.diag.database = MSG_NOT_FOUND
           /\ (moduleFound /\ ~db.some) => reqs[r].resp.diag.database = MSG_NOT_INIT

\* C6: once built the catalog is never changed, and every answer of get_survey is
\* the preset definition: same id, the same 8 questions in the same order.
C6_CatalogImmutable ==
    /\ app = "running" => PRESET_SURVEY = PresetSurveyValue
    /\ \A r \in Requests :
        (reqs[r].kind = "survey" /\ reqs[r].pc = "done")
        => /\ reqs[r].resp.status = 200
           /\ reqs[r].resp.survey = PresetSurveyValue
           /\ reqs[r].resp.survey.survey_id = CatalogId
           /\ Len(reqs[r].resp.survey.questions) = 8
           /\ [i \in 1..8 |-> reqs[r].resp.survey.questions[i].id]
                = <<"q1", "q2", "q3", "q4", "q5", "q6", "q7", "q8">>
           /\ reqs[r].resp.survey.questions[2].options.val
                = <<"iOS", "Android", "Windows", "macOS", "Linux">>

C6_Witness ==
    /\ reqs[1].kind = "submit" /\ inserts[1] # <<>>
    /\ reqs[2].kind = "survey" /\ reqs[2].pc = "done"

\* C7: a body with a required field absent or of the wrong type is answered with
\* a validation error at the boundary: the handler never runs on it, nothing is
\* inserted, nothing is acknowledged, no default fills the field.
C7_ValidationRejected ==
    \A r \in Submits :
        ~WellFormed(reqs[r].body)
        => /\ reqs[r].pc = "done"
           /\ reqs[r].resp.status = 422
           /\ reqs[r].resp.ok # "ok"
           /\ reqs[r].payload = NoPayload
           /\ inserts[r] = <<>>

C7_Witness ==
    /\ \E r \in Submits : reqs[r].body.answers.kind = "absent" /\ reqs[r].resp.status = 422
    /\ \E r \in Submits : reqs[r].body.survey_id.kind = "num" /\ reqs[r].resp.status = 422

\* C8: every single-choice question has a present, non-empty option list: those of
\* the catalog, and every question the Question schema accepts.
C8_SingleChoiceHasOptions ==
    /\ \A i \in 1..Len(PRESET_SURVEY.questions) :
          PRESET_SURVEY.questions[i].type = "single"
          => /\ PRESET_SURVEY.questions[i].options.some
             /\ Len(PRESET_SURVEY.questions[i].options.val) > 0
    /\ (qresult.accepted /\ qresult.question.type = "single")
       => /\ qresult.question.options.some
          /\ Len(qresult.question.options.val) > 0

\* C9: the record of the insert goes to "surveyresponse" and carries the user-agent
\* header and the client address of the request, null where the request has none;
\* a matching submission reaches the insert whatever its context holds.
C9_Metadata ==
    /\ \A r \in Submits :
          inserts[r] # <<>>
          => /\ inserts[r][1].collection = "surveyresponse"
             /\ inserts[r][1].data.survey_id = reqs[r].body.survey_id.str
             /\ inserts[r][1].data.user_agent = reqs[r].ctx.ua
             /\ inserts[r][1].data.ip = reqs[r].ctx.client
             /\ ~reqs[r].ctx.ua.some => inserts[r][1].data.user_agent = None
             /\ ~reqs[r].ctx.client.some => inserts[r][1].data.ip = None
    /\ \A r \in Matching : reqs[r].pc \in {"called", "done"} => Len(inserts[r]) = 1

C9_Witness ==
    \E r \in Matching :
        /\ reqs[r].pc = "done" /\ Len(inserts[r]) = 1
        /\ ~reqs[r].ctx.ua.some /\ reqs[r].ctx.client.some

\* C10: whatever the interleaving, a submission that passed the id check has made
\* exactly one insert, of its own payload and metadata; an acknowledgement carries
\* the id its own insert returned; and the collaborator has received as many
\* inserts as submissions passed the check.
C10_NoSharedState ==
    /\ \A r \in Requests :
          /\ Len(inserts[r]) <= 1
          /\ inserts[r] # <<>>
             => /\ r \in Matching
                /\ inserts[r][1].data.answers = BodyAnswers(reqs[r].body)
                /\ inserts[r][1].data.user_agent = reqs[r].ctx.ua
                /\ inserts[r][1].data.ip = reqs[r].ctx.client
          /\ (r \in Submits /\ reqs[r].resp.ok = "ok")
             => /\ inserts[r] # <<>>
                /\ ~inserts[r][1].raised
                /\ reqs[r].resp.id = inserts[r][1].doc_id
    /\ SumInserts(MaxRequests) = Cardinality({r \in Matching : reqs[r].pc \in {"called", "done"}})

\* both submissions in flight together, the second inserting first
C10_Witness ==
    /\ reqs[1].kind = "submit" /\ reqs[1].pc = "done" /\ reqs[1].resp.id = Oid(2)
    /\ reqs[2].kind = "submit" /\ reqs[2].pc = "done" /\ reqs[2].resp.id = Oid(1)

====
